---- MODULE Spec2Model ----
(***************************************************************************)
(* Purity validation of essential-oil GC-MS profiles.                      *)
(*                                                                         *)
(* The repository holds two near-duplicate scripts with the same           *)
(* functions:                                                              *)
(*   "streamlit" : src/AvaliaçãodosOES.py  (every helper wrapped in        *)
(*                 try/except, detection with >=)                          *)
(*   "console"   : src/unnamed/part_000    (no exception handling,         *)
(*                 detection with >)                                       *)
(*                                                                         *)
(* Numbers.  A table cell is a rational <<n, d>> (d > 0, lowest terms);    *)
(* <<0, 0>> is NaN and <<1, 0>> is +inf, the two values a division by a    *)
(* zero row sum produces.  The cells are binary floating-point numbers:    *)
(* the additions of a row sum and the division of a cell by it round to    *)
(* the nearest number of Precisao significant bits, ties to even, as the   *)
(* float64 operations of pandas do with 53 bits.  A similarity is an       *)
(* integer number of hundredths, floor(100 * cos), computed without        *)
(* rounding: cos >= 0.9 exactly when that integer is >= 90.                *)
(***************************************************************************)
EXTENDS Integers, Sequences, FiniteSets, TLC

VARIABLES
    script,              \* which of the two scripts is running
    pc,                  \* position inside pipeline()
    espectros_teste,     \* local of pipeline(): table, None before/failed load
    banco_referencia,    \* local of pipeline()
    banco_adulterantes,  \* local of pipeline()
    resultados,          \* local of pipeline(): list of verdict records
    classificacoes,      \* local of pipeline(): list of labels
    k,                   \* position of the running for-loop (1-based)
    plot,                \* arguments last handed to plot_pca, None before
    saida,               \* lines written with st.write / print
    erros,               \* messages surfaced with st.error
    excecao,             \* exception that left pipeline(), "nenhuma" if none
    chamada,             \* a direct call of one function and its outcome
    inexatas             \* the rows whose sum was rounded (IEEE inexact flag)

vars == <<script, pc, espectros_teste, banco_referencia, banco_adulterantes,
          resultados, classificacoes, k, plot, saida, erros, excecao, chamada,
          inexatas>>

----------------------------------------------------------------------------
(* Bounds of the model *)

MaxVal == 2
MaxCols == 2
MaxTeste == 2
MaxReferencia == 2
MaxAdulterantes == 1

(* Significant bits of a float *)
Precisao == 3

(* Largest abundance of the runs on one-row tables *)
MaxValLargo == 6

(* Bounds of the direct calls *)
MaxColsFn == 3
MaxLinhasFn == 2
MaxLista == 2

(* Policy constant of determinar_pureza, in hundredths *)
Limiar == 90

Scripts == {"streamlit", "console"}
None == [tipo |-> "None"]
IsNone(v) == v.tipo = "None"

----------------------------------------------------------------------------
(* Rational arithmetic standing for the float cells *)

NaN == <<0, 0>>
Inf == <<1, 0>>

RECURSIVE GCD(_, _)
GCD(a, b) == IF b = 0 THEN a ELSE GCD(b, a % b)

Frac(n, d) ==
    IF d = 0 THEN (IF n = 0 THEN NaN ELSE Inf)
    ELSE LET g == GCD(n, d) IN <<n \div g, d \div g>>

IsFinite(v) == v[2] # 0

(* Exact sum, product and quotient of finite rationals *)
QAdd(a, b) == Frac(a[1] * b[2] + b[1] * a[2], a[2] * b[2])
QMul(a, b) == Frac(a[1] * b[1], a[2] * b[2])
QDiv(a, b) == Frac(a[1] * b[2], a[2] * b[1])

RECURSIVE Pow2(_)
Pow2(e) == IF e = 0 THEN 1 ELSE 2 * Pow2(e - 1)

(* The significands of the normal floats are SigMin .. SigMax - 1 *)
SigMin == Pow2(Precisao - 1)
SigMax == Pow2(Precisao)

(* n / d > 0 scaled by 2^-e into [SigMin, SigMax), then the integer       *)
(* significand nearest to it, a tie going to the even one                 *)
RECURSIVE ArredondaPositivo(_, _, _)
ArredondaPositivo(n, d, e) ==
    IF n < SigMin * d THEN ArredondaPositivo(2 * n, d, e - 1)
    ELSE IF n >= SigMax * d THEN ArredondaPositivo(n, 2 * d, e + 1)
    ELSE LET m == n \div d
             r == n - m * d
             sig == IF 2 * r > d \/ (2 * r = d /\ m % 2 = 1) THEN m + 1 ELSE m
         IN  IF e >= 0 THEN Frac(sig * Pow2(e), 1) ELSE Frac(sig, Pow2(-e))

(* The float nearest to a non-negative value; an integer below SigMax is  *)
(* a float                                                                *)
Arredonda(v) ==
    IF ~IsFinite(v) \/ (v[2] = 1 /\ v[1] < SigMax) THEN v
    ELSE ArredondaPositivo(v[1], v[2], 0)

(* a + b of two floats *)
FAdd(a, b) ==
    IF a = NaN \/ b = NaN THEN NaN
    ELSE IF a = Inf \/ b = Inf THEN Inf
    ELSE Arredonda(QAdd(a, b))

(* a / b of two floats: x/0 is inf, 0/0 is NaN, no exception *)
FDiv(a, b) ==
    IF a = NaN \/ b = NaN THEN NaN
    ELSE IF a = Inf THEN (IF b = Inf THEN NaN ELSE Inf)
    ELSE IF b = Inf THEN <<0, 1>>
    ELSE IF b[1] = 0 THEN (IF a[1] = 0 THEN NaN ELSE Inf)
    ELSE Arredonda(QDiv(a, b))

(* a >= b ; any comparison with NaN is False *)
FGeq(a, b) ==
    IF a = NaN \/ b = NaN THEN FALSE
    ELSE IF a = Inf THEN TRUE
    ELSE IF b = Inf THEN FALSE
    ELSE a[1] * b[2] >= b[1] * a[2]

(* a > b *)
FGt(a, b) ==
    IF a = NaN \/ b = NaN THEN FALSE
    ELSE IF b = Inf THEN FALSE
    ELSE IF a = Inf THEN TRUE
    ELSE a[1] * b[2] > b[1] * a[2]

(* the sum of the first n cells of s, added from left to right *)
RECURSIVE FSumAte(_, _)
FSumAte(s, n) == IF n = 0 THEN <<0, 1>> ELSE FAdd(FSumAte(s, n - 1), s[n])

FSum(s) == FSumAte(s, Len(s))

(* The sum of the first n cells of s without rounding *)
RECURSIVE QSumAte(_, _)
QSumAte(s, n) == IF n = 0 THEN <<0, 1>> ELSE QAdd(QSumAte(s, n - 1), s[n])

(* The float additions of the sum of a row of finite cells lose nothing *)
SomaExata(linha) == FSum(linha) = QSumAte(linha, Len(linha))

(* The sum of a[j] * b[j] over the first n columns, without rounding *)
RECURSIVE QDotAte(_, _, _)
QDotAte(a, b, n) ==
    IF n = 0 THEN <<0, 1>> ELSE QAdd(QDotAte(a, b, n - 1), QMul(a[n], b[n]))

QDot(a, b) == QDotAte(a, b, Len(a))

----------------------------------------------------------------------------
(* Tables: a column count and a list of rows; the row at position i has   *)
(* the identifier i - 1 (the RangeIndex pd.read_csv gives).               *)

(* A cell of a file is a non-negative integer, parsed to a float *)
ValoresAte(m) == {Arredonda(<<x, 1>>) : x \in 0..m}

Valores == ValoresAte(MaxVal)

TabelasDe(w, n) ==
    {[tipo |-> "DataFrame", cols |-> w, rows |-> r] :
        r \in [1..n -> [1..w -> Valores]]}

Tabelas(maxRows) ==
    UNION {TabelasDe(w, n) : w \in 1..MaxCols, n \in 0..maxRows}

RowName(i) == i - 1

----------------------------------------------------------------------------
(* carregar_espectros: what pd.read_csv gives for a path is either a      *)
(* table or a failure.  The streamlit script turns the failure into None  *)
(* plus an st.error; the console script lets the exception out.           *)

Falha == [tipo |-> "falha"]

carregar_espectros(s, leitura) ==
    IF leitura.tipo = "DataFrame"
    THEN [ret |-> leitura, erro |-> FALSE, raised |-> FALSE]
    ELSE IF s = "streamlit"
    THEN [ret |-> None, erro |-> TRUE, raised |-> FALSE]
    ELSE [ret |-> None, erro |-> FALSE, raised |-> TRUE]

(* One row of dados.div(dados.sum(axis=1), axis=0): every cell divided   *)
(* by the sum of its row                                                  *)
NormalizarLinha(linha) ==
    LET soma == FSum(linha)
    IN  [j \in 1..Len(linha) |-> FDiv(linha[j], soma)]

Normalizar(dados) ==
    [tipo |-> "DataFrame", cols |-> dados.cols,
     rows |-> [i \in 1..Len(dados.rows) |-> NormalizarLinha(dados.rows[i])]]

(* None has no .div: AttributeError, caught only by the streamlit script *)
preprocessar_espectros(s, dados) ==
    IF ~IsNone(dados)
    THEN [ret |-> Normalizar(dados), erro |-> FALSE, raised |-> FALSE]
    ELSE IF s = "streamlit"
    THEN [ret |-> None, erro |-> TRUE, raised |-> FALSE]
    ELSE [ret |-> None, erro |-> FALSE, raised |-> TRUE]

----------------------------------------------------------------------------
(* sklearn's cosine_similarity of two vectors: ValueError on vectors of   *)
(* different length or with a non-finite cell; a zero vector keeps norm 1 *)
(* and scores 0.  The result is floor(100 * cos).                         *)

(* floor(10000 * q) for a rational 0 <= q <= 1, two decimal digits at a   *)
(* time                                                                   *)
DezMilesimos(q) ==
    LET t == (100 * q[1]) \div q[2]
        r == 100 * q[1] - t * q[2]
    IN  100 * t + (100 * r) \div q[2]

(* The largest m in lo..hi with m * m <= x, by bisection *)
RECURSIVE Bisseccao(_, _, _)
Bisseccao(lo, hi, x) ==
    IF lo = hi THEN lo
    ELSE LET m == (lo + hi + 1) \div 2
         IN  IF m * m <= x
             THEN Bisseccao(m, hi, x)
             ELSE Bisseccao(lo, m - 1, x)

(* floor(100 * sqrt(q)) for a rational 0 <= q <= 1 *)
Centesimos(q) == Bisseccao(0, 100, DezMilesimos(q))

cosine_similarity(a, b) ==
    IF Len(a) # Len(b) THEN [raised |-> TRUE, ret |-> 0]
    ELSE IF \E j \in 1..Len(a) : ~IsFinite(a[j]) \/ ~IsFinite(b[j])
    THEN [raised |-> TRUE, ret |-> 0]
    ELSE LET dot == QDot(a, b)
             na  == QDot(a, a)
             nb  == QDot(b, b)
         IN  IF na[1] = 0 \/ nb[1] = 0 THEN [raised |-> FALSE, ret |-> 0]
             ELSE [raised |-> FALSE,
                   ret |-> Centesimos(QMul(QDiv(dot, na), QDiv(dot, nb)))]

(* The loop over banco_referencia.iterrows(): one score is appended per  *)
(* row, from row i on, until the score of a row raises                    *)
RECURSIVE LacoSimilaridade(_, _, _, _)
LacoSimilaridade(espectro, linhas, i, similaridades) ==
    IF i > Len(linhas) THEN [ret |-> similaridades, falhou |-> FALSE]
    ELSE LET c == cosine_similarity(espectro, linhas[i])
         IN  IF c.raised THEN [ret |-> similaridades, falhou |-> TRUE]
             ELSE LacoSimilaridade(espectro, linhas, i + 1,
                                   Append(similaridades, c.ret))

(* When a score raises, the streamlit script reports the error and        *)
(* returns the scores it has; the console script lets the exception out.  *)
calcular_similaridade(s, espectro, banco) ==
    IF IsNone(banco)
    THEN [ret |-> <<>>, erro |-> s = "streamlit", raised |-> s # "streamlit"]
    ELSE LET l == LacoSimilaridade(espectro, banco.rows, 1, <<>>)
         IN  IF ~l.falhou
             THEN [ret |-> l.ret, erro |-> FALSE, raised |-> FALSE]
             ELSE IF s = "streamlit"
             THEN [ret |-> l.ret, erro |-> TRUE, raised |-> FALSE]
             ELSE [ret |-> <<>>, erro |-> FALSE, raised |-> TRUE]

----------------------------------------------------------------------------
(* detectar_adulterantes.  The comparison of the two value arrays is      *)
(* numpy's: element-wise, an array of length 1 is broadcast, any other    *)
(* difference of lengths raises ValueError.  The streamlit script         *)
(* compares with >=, the console script with >.                           *)

(* A strict comparison in both scripts *)
Compara_mut(s, x, y) == FGt(x, y)

Compara(s, x, y) == IF s = "streamlit" THEN FGeq(x, y) ELSE FGt(x, y)

AnyCompara(s, a, b) ==
    IF Len(a) = Len(b)
    THEN [raised |-> FALSE, ret |-> \E j \in 1..Len(a) : Compara(s, a[j], b[j])]
    ELSE IF Len(a) = 1
    THEN [raised |-> FALSE, ret |-> \E j \in 1..Len(b) : Compara(s, a[1], b[j])]
    ELSE IF Len(b) = 1
    THEN [raised |-> FALSE, ret |-> \E j \in 1..Len(a) : Compara(s, a[j], b[1])]
    ELSE [raised |-> TRUE, ret |-> FALSE]

(* The loop over banco_adulterantes.iterrows(): the name of a row is     *)
(* appended when the comparison holds, from row i on, until a comparison  *)
(* raises                                                                 *)
RECURSIVE LacoAdulterantes(_, _, _, _, _)
LacoAdulterantes(s, espectro, linhas, i, adulterantes_detectados) ==
    IF i > Len(linhas) THEN [ret |-> adulterantes_detectados, falhou |-> FALSE]
    ELSE LET c == AnyCompara(s, espectro, linhas[i])
         IN  IF c.raised THEN [ret |-> adulterantes_detectados, falhou |-> TRUE]
             ELSE LacoAdulterantes(s, espectro, linhas, i + 1,
                      IF c.ret THEN Append(adulterantes_detectados, RowName(i))
                      ELSE adulterantes_detectados)

detectar_adulterantes(s, espectro, banco) ==
    IF IsNone(banco)
    THEN [ret |-> <<>>, erro |-> s = "streamlit", raised |-> s # "streamlit"]
    ELSE LET l == LacoAdulterantes(s, espectro, banco.rows, 1, <<>>)
         IN  IF ~l.falhou
             THEN [ret |-> l.ret, erro |-> FALSE, raised |-> FALSE]
             ELSE IF s = "streamlit"
             THEN [ret |-> l.ret, erro |-> TRUE, raised |-> FALSE]
             ELSE [ret |-> <<>>, erro |-> FALSE, raised |-> TRUE]

----------------------------------------------------------------------------
(* determinar_pureza *)

Puro(s) == IF s = "streamlit" THEN "Alta potencial de pureza"
           ELSE "Alto potencial de pureza"
Alerta == "Alerta: Produto possivelmente adulterado"

(* A threshold the boundary does not pass *)
determinar_pureza_mut(s, similaridade, adulterantes_detectados) ==
    IF similaridade > Limiar /\ adulterantes_detectados = <<>>
    THEN Puro(s)
    ELSE Alerta

determinar_pureza(s, similaridade, adulterantes_detectados) ==
    IF similaridade >= Limiar /\ adulterantes_detectados = <<>>
    THEN Puro(s)
    ELSE Alerta

(* Python's max of a non-empty list *)
Max(l) == CHOOSE m \in {l[i] : i \in 1..Len(l)} : \A i \in 1..Len(l) : l[i] <= m

(* ', '.join(nomes) requires every item to be a str; the items are row    *)
(* names, which are the integers of a RangeIndex: TypeError at the first. *)
JoinRaises(nomes) == nomes # <<>>

----------------------------------------------------------------------------
(* plot_pca(dados, labels).  PCA(n_components=2) cannot be fitted to      *)
(* fewer than two rows or columns or to non-finite cells; any other call  *)
(* may still fail while rendering.  For each label the rows plotted under *)
(* it are the rows of dados at the positions the label has in labels.     *)

PcaImpossivel(dados) ==
    \/ Len(dados.rows) < 2
    \/ dados.cols < 2
    \/ \E i \in 1..Len(dados.rows) :
          \E j \in 1..Len(dados.rows[i]) : ~IsFinite(dados.rows[i][j])

plot_pca(s, falhou) ==
    IF ~falhou THEN [erro |-> FALSE, raised |-> FALSE]
    ELSE IF s = "streamlit" THEN [erro |-> TRUE, raised |-> FALSE]
    ELSE [erro |-> FALSE, raised |-> TRUE]

(* pd.concat([banco_referencia, espectros_teste]) *)
Concat(a, b) ==
    [tipo |-> "DataFrame",
     cols |-> IF a.cols >= b.cols THEN a.cols ELSE b.cols,
     rows |-> a.rows \o b.rows]

----------------------------------------------------------------------------
(* pipeline() *)

Texto(t) == [tipo |-> "texto", texto |-> t]

LinhaAmostra(i, res) ==
    [tipo |-> "amostra", amostra |-> i,
     similaridade |-> res.similaridade, status |-> res.status]

Init ==
    /\ script \in Scripts
    /\ pc = "carregar_teste"
    /\ espectros_teste = None
    /\ banco_referencia = None
    /\ banco_adulterantes = None
    /\ resultados = <<>>
    /\ classificacoes = <<>>
    /\ k = 0
    /\ plot = None
    /\ saida = <<>>
    /\ erros = {}
    /\ excecao = "nenhuma"
    /\ chamada = [fn |-> "nenhuma"]
    /\ inexatas = {}

(* espectros_teste = carregar_espectros(caminho_teste), the file being    *)
(* unreadable or one of the tables of universo                            *)
CarregarTesteDe(universo) ==
    /\ pc = "carregar_teste"
    /\ \E leitura \in universo \cup {Falha} :
         LET c == carregar_espectros(script, leitura) IN
         /\ saida' = Append(saida, Texto("Carregando dados..."))
         /\ IF c.raised
            THEN /\ pc' = "abortado"
                 /\ excecao' = "read_csv"
                 /\ UNCHANGED <<espectros_teste, erros>>
            ELSE /\ pc' = "carregar_referencia"
                 /\ espectros_teste' = c.ret
                 /\ erros' = IF c.erro THEN erros \cup {"carregar"} ELSE erros
                 /\ UNCHANGED excecao
    /\ UNCHANGED <<script, inexatas, banco_referencia, banco_adulterantes,
                   resultados, classificacoes, k, plot, chamada>>

CarregarTeste == CarregarTesteDe(Tabelas(MaxTeste))

(* banco_referencia = carregar_espectros(caminho_referencia) *)
CarregarReferenciaDe(universo) ==
    /\ pc = "carregar_referencia"
    /\ \E leitura \in universo \cup {Falha} :
         LET c == carregar_espectros(script, leitura) IN
         /\ IF c.raised
            THEN /\ pc' = "abortado"
                 /\ excecao' = "read_csv"
                 /\ UNCHANGED <<banco_referencia, erros>>
            ELSE /\ pc' = "carregar_adulterantes"
                 /\ banco_referencia' = c.ret
                 /\ erros' = IF c.erro THEN erros \cup {"carregar"} ELSE erros
                 /\ UNCHANGED excecao
    /\ UNCHANGED <<script, inexatas, espectros_teste, banco_adulterantes,
                   resultados, classificacoes, k, plot, saida, chamada>>

CarregarReferencia == CarregarReferenciaDe(Tabelas(MaxReferencia))

(* A test that forgets the adulterant table *)
AlgumaCargaFalhou_mut(t, r, a) == IsNone(t) \/ IsNone(r)

(* The streamlit script's test after the three loads; the console script *)
(* has none.                                                             *)
AlgumaCargaFalhou(t, r, a) == IsNone(t) \/ IsNone(r) \/ IsNone(a)

(* banco_adulterantes = carregar_espectros(caminho_adulterantes), and in *)
(* the streamlit script the return when any of the three is None         *)
CarregarAdulterantesDe(universo) ==
    /\ pc = "carregar_adulterantes"
    /\ \E leitura \in universo \cup {Falha} :
         LET c == carregar_espectros(script, leitura) IN
         /\ IF c.raised
            THEN /\ pc' = "abortado"
                 /\ excecao' = "read_csv"
                 /\ UNCHANGED <<banco_adulterantes, erros>>
            ELSE /\ banco_adulterantes' = c.ret
                 /\ erros' = IF c.erro THEN erros \cup {"carregar"} ELSE erros
                 /\ pc' = IF script = "streamlit"
                             /\ AlgumaCargaFalhou(espectros_teste,
                                                  banco_referencia, c.ret)
                          THEN "retornou"
                          ELSE "preprocessar"
                 /\ UNCHANGED excecao
    /\ UNCHANGED <<script, inexatas, espectros_teste, banco_referencia,
                   resultados, classificacoes, k, plot, saida, chamada>>

CarregarAdulterantes == CarregarAdulterantesDe(Tabelas(MaxAdulterantes))

(* The rows of a table whose sum the float additions round *)
SomasInexatas(nome, tabela) ==
    IF IsNone(tabela) THEN {}
    ELSE {<<nome, i>> : i \in {n \in 1..Len(tabela.rows) :
                                  ~SomaExata(tabela.rows[n])}}

(* The three preprocessar_espectros calls and the start of the loop *)
Preprocessar ==
    /\ pc = "preprocessar"
    /\ \E t \in {preprocessar_espectros(script, espectros_teste)},
          r \in {preprocessar_espectros(script, banco_referencia)},
          a \in {preprocessar_espectros(script, banco_adulterantes)} :
       IF t.raised \/ r.raised \/ a.raised
       THEN /\ pc' = "abortado"
            /\ excecao' = "AttributeError"
            /\ saida' = Append(saida, Texto("Pré-processando dados..."))
            /\ UNCHANGED <<espectros_teste, banco_referencia,
                           banco_adulterantes, erros, k, inexatas>>
       ELSE /\ pc' = "laco"
            /\ inexatas' = SomasInexatas("teste", espectros_teste)
                              \cup SomasInexatas("referencia", banco_referencia)
                              \cup SomasInexatas("adulterantes",
                                                 banco_adulterantes)
            /\ espectros_teste' = t.ret
            /\ banco_referencia' = r.ret
            /\ banco_adulterantes' = a.ret
            /\ erros' = IF t.erro \/ r.erro \/ a.erro
                        THEN erros \cup {"preprocessar"} ELSE erros
            /\ saida' = saida \o <<Texto("Pré-processando dados..."),
                                   Texto("Calculando similaridades...")>>
            /\ k' = 1
            /\ UNCHANGED excecao
    /\ UNCHANGED <<script, resultados, classificacoes, plot, chamada>>

(* A loop that reads the first row at every iteration *)
LinhaAtual_mut(tabela, i) == tabela.rows[1]

(* The row the loop is at *)
LinhaAtual(tabela, i) == tabela.rows[i]

(* One iteration of the loop over espectros_teste.iterrows() *)
Iteracao ==
    /\ pc = "laco"
    /\ IF IsNone(espectros_teste)
       THEN /\ pc' = "abortado"
            /\ excecao' = "AttributeError"
            /\ UNCHANGED <<resultados, classificacoes, k, erros>>
       ELSE
       /\ k <= Len(espectros_teste.rows)
       /\ \E sims \in {calcular_similaridade(script,
                           LinhaAtual(espectros_teste, k), banco_referencia)},
             det \in {detectar_adulterantes(script,
                           LinhaAtual(espectros_teste, k), banco_adulterantes)} :
          IF sims.raised
          THEN /\ pc' = "abortado"
               /\ excecao' = "ValueError"
               /\ UNCHANGED <<resultados, classificacoes, k, erros>>
          ELSE IF sims.ret = <<>>
          THEN \* max([]) raises ValueError
               /\ pc' = "abortado"
               /\ excecao' = "ValueError"
               /\ erros' = IF sims.erro THEN erros \cup {"similaridade"} ELSE erros
               /\ UNCHANGED <<resultados, classificacoes, k>>
          ELSE IF det.raised
          THEN /\ pc' = "abortado"
               /\ excecao' = "ValueError"
               /\ erros' = IF sims.erro THEN erros \cup {"similaridade"} ELSE erros
               /\ UNCHANGED <<resultados, classificacoes, k>>
          ELSE \E max_similaridade \in {Max(sims.ret)} :
               \E status \in {determinar_pureza(script, max_similaridade, det.ret)} :
               /\ resultados' = Append(resultados,
                                       [similaridade |-> max_similaridade,
                                        status |-> status,
                                        adulterantes |-> det.ret])
               /\ classificacoes' = Append(classificacoes, status)
               /\ erros' = erros
                            \cup (IF sims.erro THEN {"similaridade"} ELSE {})
                            \cup (IF det.erro THEN {"adulterantes"} ELSE {})
               /\ k' = k + 1
               /\ UNCHANGED <<pc, excecao>>
    /\ UNCHANGED <<script, inexatas, espectros_teste, banco_referencia, banco_adulterantes,
                   plot, saida, chamada>>

(* After the loop: plot_pca(pd.concat([...]), classificacoes), then the  *)
(* heading of the report                                                 *)
Visualizar ==
    /\ pc = "laco"
    /\ ~IsNone(espectros_teste)
    /\ k > Len(espectros_teste.rows)
    /\ LET dados == Concat(banco_referencia, espectros_teste) IN
       \E falhou \in BOOLEAN :
         /\ PcaImpossivel(dados) => falhou
         /\ plot' = [tipo |-> "plot", dados |-> dados.rows, labels |-> classificacoes]
         /\ LET v == plot_pca(script, falhou) IN
            IF v.raised
            THEN /\ pc' = "abortado"
                 /\ excecao' = "plot_pca"
                 /\ saida' = Append(saida, Texto("Visualizando com PCA..."))
                 /\ UNCHANGED <<erros, k>>
            ELSE /\ pc' = "relatorio"
                 /\ erros' = IF v.erro THEN erros \cup {"plot_pca"} ELSE erros
                 /\ saida' = saida \o <<Texto("Visualizando com PCA..."),
                                        Texto("Resultados Finais:")>>
                 /\ k' = 1
                 /\ UNCHANGED excecao
    /\ UNCHANGED <<script, inexatas, espectros_teste, banco_referencia, banco_adulterantes,
                   resultados, classificacoes, chamada>>

(* One iteration of the report loop: the line of the sample, then the    *)
(* line of its adulterants, whose join raises                            *)
Relatorio ==
    /\ pc = "relatorio"
    /\ k <= Len(resultados)
    /\ saida' = Append(saida, LinhaAmostra(k, resultados[k]))
    /\ IF JoinRaises(resultados[k].adulterantes)
       THEN /\ pc' = "abortado"
            /\ excecao' = "TypeError"
            /\ UNCHANGED k
       ELSE /\ k' = k + 1
            /\ UNCHANGED <<pc, excecao>>
    /\ UNCHANGED <<script, inexatas, espectros_teste, banco_referencia, banco_adulterantes,
                   resultados, classificacoes, plot, erros, chamada>>

(* pipeline() returns *)
Terminar ==
    /\ pc = "relatorio"
    /\ k > Len(resultados)
    /\ pc' = "fim"
    /\ UNCHANGED <<script, inexatas, espectros_teste, banco_referencia, banco_adulterantes,
                   resultados, classificacoes, k, plot, saida, erros, excecao,
                   chamada>>

Next ==
    \/ CarregarTeste
    \/ CarregarReferencia
    \/ CarregarAdulterantes
    \/ Preprocessar
    \/ Iteracao
    \/ Visualizar
    \/ Relatorio
    \/ Terminar

Spec == Init /\ [][Next]_vars

----------------------------------------------------------------------------
(* The same pipeline on files of at most one row and of two columns: a   *)
(* sample and an adulterant with abundances up to MaxValLargo, and a      *)
(* reference profile with abundances up to MaxVal.                        *)

TabelasLargoAte(m) ==
    {[tipo |-> "DataFrame", cols |-> 2, rows |-> r] :
        r \in UNION {[1..n -> [1..2 -> ValoresAte(m)]] : n \in 0..1}}

CarregarTesteLargo == CarregarTesteDe(TabelasLargoAte(MaxValLargo))

CarregarReferenciaLargo == CarregarReferenciaDe(TabelasLargoAte(MaxVal))

CarregarAdulterantesLargo == CarregarAdulterantesDe(TabelasLargoAte(MaxValLargo))

NextLargo ==
    \/ CarregarTesteLargo
    \/ CarregarReferenciaLargo
    \/ CarregarAdulterantesLargo
    \/ Preprocessar
    \/ Iteracao
    \/ Visualizar
    \/ Relatorio
    \/ Terminar

SpecLargo == Init /\ [][NextLargo]_vars

----------------------------------------------------------------------------
(* Direct calls of determinar_pureza, calcular_similaridade and           *)
(* detectar_adulterantes, on arguments of any value and not only those a  *)
(* pipeline run produces.                                                 *)

PerfisFn == UNION {[1..w -> Valores] : w \in 1..MaxColsFn}

TabelasFn == UNION {TabelasDe(w, n) : w \in 1..MaxColsFn, n \in 0..MaxLinhasFn}

ListasFn == UNION {[1..n -> 0..(MaxLista - 1)] : n \in 0..MaxLista}

InitFn ==
    /\ script \in Scripts
    /\ pc = "chamada"
    /\ espectros_teste = None
    /\ banco_referencia = None
    /\ banco_adulterantes = None
    /\ resultados = <<>>
    /\ classificacoes = <<>>
    /\ k = 0
    /\ plot = None
    /\ saida = <<>>
    /\ erros = {}
    /\ excecao = "nenhuma"
    /\ chamada = [fn |-> "nenhuma"]
    /\ inexatas = {}

ChamarDeterminarPureza ==
    /\ chamada.fn = "nenhuma"
    /\ \E sim \in 0..100, lista \in ListasFn :
         chamada' = [fn |-> "determinar_pureza",
                     similaridade |-> sim,
                     adulterantes |-> lista,
                     ret |-> determinar_pureza(script, sim, lista)]
    /\ UNCHANGED <<script, inexatas, pc, espectros_teste, banco_referencia,
                   banco_adulterantes, resultados, classificacoes, k, plot,
                   saida, erros, excecao>>

ChamarDetectarAdulterantes ==
    /\ chamada.fn = "nenhuma"
    /\ \E espectro \in PerfisFn, banco \in TabelasFn :
         chamada' = [fn |-> "detectar_adulterantes",
                     espectro |-> espectro,
                     banco |-> banco,
                     out |-> detectar_adulterantes(script, espectro, banco)]
    /\ UNCHANGED <<script, inexatas, pc, espectros_teste, banco_referencia,
                   banco_adulterantes, resultados, classificacoes, k, plot,
                   saida, erros, excecao>>

ChamarCalcularSimilaridade ==
    /\ chamada.fn = "nenhuma"
    /\ \E espectro \in PerfisFn, banco \in TabelasFn :
         chamada' = [fn |-> "calcular_similaridade",
                     espectro |-> espectro,
                     banco |-> banco,
                     out |-> calcular_similaridade(script, espectro, banco)]
    /\ UNCHANGED <<script, inexatas, pc, espectros_teste, banco_referencia,
                   banco_adulterantes, resultados, classificacoes, k, plot,
                   saida, erros, excecao>>

NextFn ==
    \/ ChamarDeterminarPureza
    \/ ChamarCalcularSimilaridade
    \/ ChamarDetectarAdulterantes

SpecFn == InitFn /\ [][NextFn]_vars

----------------------------------------------------------------------------
(* Properties *)

Carregando == {"carregar_teste", "carregar_referencia", "carregar_adulterantes"}

(* The tables are loaded and normalized *)
Preprocessado ==
    /\ pc \notin Carregando \cup {"retornou", "preprocessar", "chamada"}
    /\ ~IsNone(espectros_teste)
    /\ ~IsNone(banco_referencia)
    /\ ~IsNone(banco_adulterantes)
    /\ ~(pc = "abortado" /\ excecao \in {"read_csv", "AttributeError"})

LinhaFinita(l) == \A j \in 1..Len(l) : IsFinite(l[j])
TabelaFinita(t) == \A i \in 1..Len(t.rows) : LinhaFinita(t.rows[i])

LinhasDeAmostra == SelectSeq(saida, LAMBDA l : l.tipo = "amostra")

(* C1: determinar_pureza returns the pure label exactly when the          *)
(* similarity is at least 0.9 and no adulterant is listed, and the        *)
(* adulterated label in every other case.                                 *)
C1_TabelaDeDecisao ==
    chamada.fn = "determinar_pureza" =>
        /\ (chamada.ret = Puro(script)) <=>
               (chamada.similaridade >= 90 /\ Len(chamada.adulterantes) = 0)
        /\ chamada.ret # Puro(script) =>
               chamada.ret = "Alerta: Produto possivelmente adulterado"

C1_Witness ==
    /\ chamada.fn = "determinar_pureza"
    /\ chamada.similaridade = 90
    /\ chamada.adulterantes = <<>>
    /\ chamada.ret = Puro(script)

(* The rows of linhas, among the first n, with a column where the profile *)
(* is greater than or equal to the row                                    *)
RECURSIVE EsperadoGeq(_, _, _)
EsperadoGeq(espectro, linhas, n) ==
    IF n = 0 THEN <<>>
    ELSE LET antes == EsperadoGeq(espectro, linhas, n - 1)
         IN  IF \E j \in 1..Len(espectro) : FGeq(espectro[j], linhas[n][j])
             THEN Append(antes, n - 1)
             ELSE antes

(* C2: in both scripts detectar_adulterantes returns, in table order, the *)
(* identifiers of exactly the adulterant rows that have a column where    *)
(* the test value is greater than or equal to the adulterant value.       *)
C2_Original ==
    (chamada.fn = "detectar_adulterantes"
        /\ Len(chamada.espectro) = chamada.banco.cols) =>
        /\ ~chamada.out.raised
        /\ chamada.out.ret =
              EsperadoGeq(chamada.espectro, chamada.banco.rows,
                          Len(chamada.banco.rows))

(* C3: a zero-sum row in any of the three tables ends the run with no     *)
(* verdict and no report line; nothing is computed next to a row that     *)
(* came out of a division by zero.                                        *)
C3_Original ==
    (Preprocessado /\ ~(TabelaFinita(espectros_teste)
                         /\ TabelaFinita(banco_referencia)
                         /\ TabelaFinita(banco_adulterantes))) =>
        /\ resultados = <<>>
        /\ LinhasDeAmostra = <<>>

(* C4: when the test profile and the compared table differ in their     *)
(* number of columns, calcular_similaridade and detectar_adulterantes     *)
(* both end in an error and neither returns a list.                       *)
C4_Original ==
    (/\ chamada.fn \in {"calcular_similaridade", "detectar_adulterantes"}
     /\ Len(chamada.espectro) # chamada.banco.cols
     /\ chamada.banco.rows # <<>>) =>
        chamada.out.raised

CargaFalhou ==
    /\ pc \notin Carregando \cup {"chamada"}
    /\ \/ IsNone(espectros_teste)
       \/ IsNone(banco_referencia)
       \/ IsNone(banco_adulterantes)

(* C5: when the load of any of the three files fails, the run ends after  *)
(* the loads with the error surfaced: nothing is normalized, scored,      *)
(* classified, plotted or reported.                                       *)
C5_CargaFalhaEncerra ==
    CargaFalhou =>
        /\ pc \in {"retornou", "abortado"}
        /\ "carregar" \in erros \/ excecao = "read_csv"
        /\ saida = <<Texto("Carregando dados...")>>
        /\ resultados = <<>>
        /\ classificacoes = <<>>
        /\ plot = None

C5_Witness ==
    /\ script = "streamlit"
    /\ pc = "retornou"
    /\ ~IsNone(espectros_teste)
    /\ IsNone(banco_referencia)
    /\ ~IsNone(banco_adulterantes)

PlotFalhou == "plot_pca" \in erros \/ excecao = "plot_pca"

(* C6: in both scripts a failure of plot_pca is surfaced and the run      *)
(* still ends with the result line of every sample written.               *)
C6_Original ==
    (PlotFalhou /\ pc \in {"fim", "abortado"}) =>
        /\ Len(LinhasDeAmostra) = Len(resultados)
        /\ \A i \in 1..Len(resultados) :
              LinhasDeAmostra[i] = LinhaAmostra(i, resultados[i])

EmRelatorio == pc \in {"relatorio", "fim"} \/ excecao = "TypeError"

(* resultados[i] is the verdict of the i-th test row, from that row alone *)
VereditoDaLinha(i) ==
    LET espectro == espectros_teste.rows[i]
        sims == calcular_similaridade(script, espectro, banco_referencia).ret
        ads  == detectar_adulterantes(script, espectro, banco_adulterantes).ret
    IN  /\ sims # <<>>
        /\ resultados[i].similaridade = Max(sims)
        /\ resultados[i].adulterantes = ads
        /\ resultados[i].status =
              (IF Max(sims) >= 90 /\ ads = <<>> THEN Puro(script) ELSE Alerta)

C7_UmPorLinha ==
    EmRelatorio =>
        /\ Len(resultados) = Len(espectros_teste.rows)
        /\ \A i \in 1..Len(resultados) : VereditoDaLinha(i)
        /\ \A i \in 1..Len(LinhasDeAmostra) :
              LinhasDeAmostra[i] = LinhaAmostra(i, resultados[i])

C7_Imutavel ==
    \A i \in 1..Len(resultados) :
        /\ Len(resultados') >= i
        /\ resultados'[i] = resultados[i]

(* C7: a run that reaches the report holds one verdict per test row, in   *)
(* the order of the test table, the i-th computed from the i-th row and   *)
(* shown as sample i, and an appended verdict never changes.              *)
C7_VereditosPorLinha == [](C7_UmPorLinha) /\ [][C7_Imutavel]_vars

C7_Witness ==
    /\ pc = "fim"
    /\ Len(resultados) = 2
    /\ resultados[1].similaridade # resultados[2].similaridade
    /\ Len(LinhasDeAmostra) = 2

(* C8: every verdict rests on one score per reference row, also when the  *)
(* score of some reference row fails: the maximum is never taken over a   *)
(* prefix of the reference table.                                         *)
C8_Original ==
    Preprocessado =>
        \A i \in 1..Len(resultados) :
            Len(calcular_similaridade(script, espectros_teste.rows[i],
                                      banco_referencia).ret)
                = Len(banco_referencia.rows)

(* C9: plot_pca receives the pooled table with one label per row, the     *)
(* label at position j being that of the row at position j, so every test *)
(* row is plotted under its own verdict.                                  *)
C9_Original ==
    (~IsNone(plot) /\ resultados # <<>>) =>
        /\ Len(plot.labels) = Len(plot.dados)
        /\ \A i \in 1..Len(resultados) :
              plot.labels[Len(banco_referencia.rows) + i] = resultados[i].status

TabelasValidas ==
    /\ Preprocessado
    /\ espectros_teste.cols = banco_adulterantes.cols
    /\ TabelaFinita(espectros_teste)
    /\ TabelaFinita(banco_adulterantes)

(* C10 as stated: in the streamlit script, for tables with the same       *)
(* columns and positive row sums, every verdict lists every adulterant    *)
(* row, and with at least one adulterant row no verdict is the pure one.  *)
C10_Original ==
    (script = "streamlit" /\ TabelasValidas) =>
        \A i \in 1..Len(resultados) :
            /\ resultados[i].adulterantes =
                  [j \in 1..Len(banco_adulterantes.rows) |-> j - 1]
            /\ Len(banco_adulterantes.rows) > 0 =>
                  resultados[i].status # Puro(script)

Listado(nomes, nome) == \E p \in 1..Len(nomes) : nomes[p] = nome

(* C10: in the streamlit script, for tables with the same columns and     *)
(* positive row sums, the verdict of a test row whose sum is computed     *)
(* without rounding lists every adulterant row whose sum is computed      *)
(* without rounding, and is then never the pure one.                      *)
C10_SomasExatas ==
    (script = "streamlit" /\ TabelasValidas) =>
        \A i \in 1..Len(resultados) :
            <<"teste", i>> \notin inexatas =>
                \A j \in 1..Len(banco_adulterantes.rows) :
                    <<"adulterantes", j>> \notin inexatas =>
                        /\ Listado(resultados[i].adulterantes, j - 1)
                        /\ resultados[i].status # Puro(script)

C10_Witness ==
    /\ script = "streamlit"
    /\ TabelasValidas
    /\ Len(resultados) > 0
    /\ Len(banco_adulterantes.rows) > 0
    /\ inexatas = {}
    /\ banco_adulterantes.rows[1] # espectros_teste.rows[1]
    /\ resultados[1].similaridade >= 90
    /\ resultados[1].adulterantes = <<0>>
    /\ resultados[1].status = Alerta

====
